---- MODULE Spec2Model ----
(***************************************************************************)
(* A model of Betti_power.py: the rotor-performance table and its          *)
(* nearest-value lookup (process_rotor_performance, CpCtCq), the two       *)
(* drivetrain models (WindTurbine, WindTurbine_fixed), the composition     *)
(* Betti and the fixed-step integrator rk4 with its post-processing and    *)
(* subsampling.                                                            *)
(*                                                                         *)
(* Numbers.  The program computes in IEEE double precision through numpy.  *)
(* A float is modelled as a scalar: a finite fixed-point value, +inf, -inf *)
(* or nan.  An expression is evaluated exactly and rounded to the nearest  *)
(* unit; the special values follow the IEEE rules numpy applies (a         *)
(* division by zero of numpy scalars yields inf or nan and a warning, not  *)
(* an exception).  Units: radians are held in milliradians, degrees in     *)
(* tenths of a degree, power and thrust coefficients in hundredths, heave  *)
(* in centimetres, time in ticks.                                          *)
(***************************************************************************)
EXTENDS Integers, Sequences, FiniteSets, TLC

VARIABLES
    input_file,     \* the text file process_rotor_performance is given
    performance,    \* what process_rotor_performance returned (or its error)
    lookup,         \* the last CpCtCq call: arguments, indices, result
    args,           \* the arguments of the rk4 call
    pc,             \* where the rk4 call stands
    exc,            \* the exception that ended it, if any
    n,              \* rk4's n, the number of grid points
    t,              \* rk4's t: grid times, as numerators over tden
    tden,           \* the common denominator of every time of the run
    x,              \* rk4's x: one row of 8 scalars per grid point
    i,              \* the loop index of line 776
    beta,           \* the blade pitch handed to Betti
    integral,       \* the controller's integral accumulator
    error,          \* the controller's error history (np.empty(n))
    betas,          \* the pitch history list
    h_waves,        \* wave height at the platform, one entry per step
    P_A,            \* aerodynamic power, one entry per step
    P_fix,          \* aerodynamic power of the fixed twin, one entry per step
    random_phases,  \* the wave phases drawn at line 716
    np_random,      \* the state of numpy's process-wide generator
    wave_eta,       \* wave elevation over the whole grid (lines 801-803)
    evals,          \* the four Betti calls of the latest step, in order
    x_raw,          \* history: each row of x as the integration loop wrote it
    t_sub,          \* rk4's t_sub (line 809), absolute grid times
    ret,            \* the tuple rk4 returned
    net_force,      \* the last force assembly of structure: contributions, F
    pitch_call      \* the last PI_blade_pitch_controller call: arguments, result

tvars == <<input_file, performance, lookup>>
rvars == <<args, pc, exc, n, t, tden, x, i, beta, integral, error, betas, h_waves,
           P_A, P_fix, random_phases, np_random, wave_eta, evals, x_raw, t_sub, ret>>
vars == <<input_file, performance, lookup, args, pc, exc, n, t, tden, x, i, beta,
          integral, error, betas, h_waves, P_A, P_fix, random_phases, np_random,
          wave_eta, evals, x_raw, t_sub, ret, net_force, pitch_call>>
uvars == <<net_force, pitch_call>>

-----------------------------------------------------------------------------
(* Bounds of the model *)

\* Longest pitch or TSR axis of an enumerated table file.
MaxAxis == 3
\* Axis values of an enumerated table file are drawn from 0..MaxAxisVal.
MaxAxisVal == 4
\* Pitch queries are drawn from 0..MaxBeta milliradians.
MaxBeta == 10
\* rk4 runs start at t0 = 0 and end at a tf in 0..MaxTf ticks.
MaxTf == 10
\* The step size dt of a run is drawn from 1..MaxDt ticks.
MaxDt == 5
\* The 0.5 s output interval of lines 805 and 807, in ticks.
HalfSecond == 4
\* The 500 s warm-up of line 807 in ticks, scaled down so that a run that
\* outlasts it stays short: discard_steps is DiscardTime / HalfSecond.
DiscardTime == 8

-----------------------------------------------------------------------------
(* Scalars: the model of a numpy float64 *)

\* Calls.  Python evaluates the arguments of a call once, before the call.  An
\* operator named X_body is the computation of X on its parameters; X applies
\* X_body to the values of its arguments, each argument evaluated once.

Fin(v) == [k |-> "fin", v |-> v]
PosInf == [k |-> "inf", v |-> 1]
NegInf == [k |-> "inf", v |-> -1]
NaN == [k |-> "nan", v |-> 0]

IsFin(a) == a.k = "fin"
IsNaN(a) == a.k = "nan"
IsInf(a) == a.k = "inf"

Sign(m) == IF m > 0 THEN 1 ELSE IF m < 0 THEN -1 ELSE 0
AbsInt(m) == IF m < 0 THEN -m ELSE m

\* m/d rounded to the nearest integer (d # 0): the rounding of one float operation.
RoundDiv(m, d) ==
    Sign(m) * Sign(d) * ((2 * AbsInt(m) + AbsInt(d)) \div (2 * AbsInt(d)))

InfOf(s) == IF s >= 0 THEN PosInf ELSE NegInf

fneg_body(a) == IF IsNaN(a) THEN NaN ELSE [k |-> a.k, v |-> -a.v]
fneg(a) ==
    CHOOSE r \in {fneg_body(v_a) : v_a \in {a}} : TRUE

fabs_body(a) == IF IsNaN(a) THEN NaN ELSE [k |-> a.k, v |-> AbsInt(a.v)]
fabs(a) ==
    CHOOSE r \in {fabs_body(v_a) : v_a \in {a}} : TRUE

fadd_body(a, b) ==
    IF IsNaN(a) \/ IsNaN(b) THEN NaN
    ELSE IF IsInf(a) /\ IsInf(b) THEN (IF a.v = b.v THEN a ELSE NaN)
    ELSE IF IsInf(a) THEN a
    ELSE IF IsInf(b) THEN b
    ELSE Fin(a.v + b.v)
fadd(a, b) ==
    CHOOSE r \in {fadd_body(v_a, v_b) : v_a \in {a}, v_b \in {b}} : TRUE

fsub(a, b) == fadd(a, fneg(b))

fmul_body(a, b) ==
    IF IsNaN(a) \/ IsNaN(b) THEN NaN
    ELSE IF IsInf(a) \/ IsInf(b)
         THEN (IF a.v = 0 \/ b.v = 0 THEN NaN ELSE InfOf(Sign(a.v) * Sign(b.v)))
    ELSE Fin(a.v * b.v)
fmul(a, b) ==
    CHOOSE r \in {fmul_body(v_a, v_b) : v_a \in {a}, v_b \in {b}} : TRUE

\* numpy true division: x/0 is +-inf (0/0 and inf/inf are nan), no exception.
fdiv_body(a, b) ==
    IF IsNaN(a) \/ IsNaN(b) THEN NaN
    ELSE IF IsInf(b) THEN (IF IsInf(a) THEN NaN ELSE Fin(0))
    ELSE IF b.v = 0 THEN (IF a.v = 0 THEN NaN ELSE InfOf(Sign(a.v)))
    ELSE IF IsInf(a) THEN InfOf(Sign(a.v) * Sign(b.v))
    ELSE Fin(RoundDiv(a.v, b.v))
fdiv(a, b) ==
    CHOOSE r \in {fdiv_body(v_a, v_b) : v_a \in {a}, v_b \in {b}} : TRUE

\* a < b as IEEE compares: every comparison with nan is false.
flt_body(a, b) ==
    IF IsNaN(a) \/ IsNaN(b) THEN FALSE
    ELSE IF IsInf(a) THEN a.v < 0 /\ ~(IsInf(b) /\ b.v < 0)
    ELSE IF IsInf(b) THEN b.v > 0
    ELSE a.v < b.v
flt(a, b) ==
    CHOOSE r \in {flt_body(v_a, v_b) : v_a \in {a}, v_b \in {b}} : TRUE

\* np.rad2deg: x * 180/pi, from milliradians to tenths of a degree.
rad2deg_body(a) ==
    IF IsFin(a) THEN Fin(RoundDiv(a.v * 1800000, 3141593)) ELSE a
rad2deg(a) ==
    CHOOSE r \in {rad2deg_body(v_a) : v_a \in {a}} : TRUE

-----------------------------------------------------------------------------
(* The rotor-performance table *)

\* Cell (row i, column j), 0-based, of the file's power and thrust blocks.
\* Every cell of a file holds a different number, so a returned coefficient
\* names the cell it was read from.
CpCellOf(r, c) == 10 * r + c
CtCellOf(r, c) == 50 + 10 * r + c

RECURSIVE AscendingSeqs(_, _)
\* The strictly ascending sequences over 0..hi of length at most len.
AscendingSeqs(hi, len) ==
    IF len = 0 THEN {<<>>}
    ELSE LET shorter == AscendingSeqs(hi, len - 1)
             longest == {s \in shorter : Len(s) = len - 1}
             grown == {p \in longest \X (0..hi) : Len(p[1]) = 0 \/ p[1][Len(p[1])] < p[2]}
         IN  shorter \cup {Append(p[1], p[2]) : p \in grown}

\* A file in the layout the reader expects: its pitch line (line 5), its TSR
\* line (line 7), and how many lines it holds; rows are as wide as the pitch line.
Files ==
    [pitch : AscendingSeqs(MaxAxisVal, MaxAxis),
     tsr   : AscendingSeqs(MaxAxisVal, MaxAxis),
     nlines : {12, 16 + 2 * MaxAxis}]

NoTable == [status |-> "unloaded", C_p |-> <<>>, C_t |-> <<>>,
            pitch_list |-> <<>>, TSR_list |-> <<>>]

\* process_rotor_performance: lines[4] and lines[6] are the axes, the C_p rows are
\* lines[12 .. 12+len(TSR)-1], the C_t rows lines[16+len(TSR) .. 16+2*len(TSR)-1].
\* The only failure is a line index past the end of the file (IndexError).
process_rotor_performance(f) ==
    LET nT == Len(f.tsr)
        nP == Len(f.pitch)
    IN  IF f.nlines < 7 \/ (nT > 0 /\ f.nlines < 16 + 2 * nT)
        THEN [NoTable EXCEPT !.status = "IndexError"]
        ELSE [status |-> "ok",
              C_p |-> [r \in 1..nT |-> [c \in 1..nP |-> CpCellOf(r - 1, c - 1)]],
              C_t |-> [r \in 1..nT |-> [c \in 1..nP |-> CtCellOf(r - 1, c - 1)]],
              pitch_list |-> f.pitch,
              TSR_list |-> f.tsr]

RECURSIVE bisect_loop(_, _, _, _)
\* bisect.bisect_left(a, x): the loop of the standard library, on 0-based lo, hi.
bisect_loop(a, q, lo, hi) ==
    IF lo < hi
    THEN LET mid == (lo + hi) \div 2
         IN  IF flt(Fin(a[mid + 1]), q)
             THEN bisect_loop(a, q, mid + 1, hi)
             ELSE bisect_loop(a, q, lo, mid)
    ELSE lo

bisect_left(a, q) == bisect_loop(a, q, 0, Len(a))

\* Variants of the tie-break used to test the claims: the comparison inverted,
\* ties given to the lower index, and no step back from past the end.
NearestIndex_inverted(a, q, idx) ==
    IF idx # 0 /\ (idx = Len(a)
                   \/ flt(fabs(fsub(q, Fin(a[idx + 1]))), fabs(fsub(q, Fin(a[idx])))))
    THEN idx - 1
    ELSE idx

NearestIndex_tieLow(a, q, idx) ==
    IF idx # 0 /\ (idx = Len(a)
                   \/ ~flt(fabs(fsub(q, Fin(a[idx + 1]))), fabs(fsub(q, Fin(a[idx])))))
    THEN idx - 1
    ELSE idx

NearestIndex_noClamp(a, q, idx) ==
    IF idx # 0 /\ idx # Len(a)
       /\ flt(fabs(fsub(q, Fin(a[idx]))), fabs(fsub(q, Fin(a[idx + 1]))))
    THEN idx - 1
    ELSE idx

\* Lines 97 and 99: step back when the index is past the end or the previous
\* value is strictly closer.  idx is 0-based, a[idx + 1] is Python's a[idx].
NearestIndex_body(a, q, idx) ==
    IF idx # 0 /\ (idx = Len(a)
                   \/ flt(fabs(fsub(q, Fin(a[idx]))), fabs(fsub(q, Fin(a[idx + 1])))))
    THEN idx - 1
    ELSE idx
NearestIndex(a, q, idx) ==
    CHOOSE r \in {NearestIndex_body(v_a, v_q, v_idx) : v_a \in {a}, v_q \in {q}, v_idx \in {idx}} : TRUE

\* CpCtCq(TSR, beta, performance): the 0-based indices and the cell read, or
\* the IndexError of reading outside the grid.
CpCtCq_body(TSR, b, perf) ==
    LET deg == rad2deg(b)
        pitch_index == NearestIndex(perf.pitch_list, deg, bisect_left(perf.pitch_list, deg))
        TSR_index == NearestIndex(perf.TSR_list, TSR, bisect_left(perf.TSR_list, TSR))
    IN  IF TSR_index >= Len(perf.C_p) \/ pitch_index >= Len(perf.C_p[TSR_index + 1])
        THEN [status |-> "IndexError", TSR |-> TSR, beta |-> b,
              pitch_index |-> pitch_index, TSR_index |-> TSR_index, Cp |-> 0, Ct |-> 0]
        ELSE [status |-> "ok", TSR |-> TSR, beta |-> b,
              pitch_index |-> pitch_index, TSR_index |-> TSR_index,
              Cp |-> perf.C_p[TSR_index + 1][pitch_index + 1],
              Ct |-> perf.C_t[TSR_index + 1][pitch_index + 1]]
CpCtCq(TSR, b, perf) ==
    CHOOSE r \in {CpCtCq_body(v_TSR, v_b, v_perf) : v_TSR \in {TSR}, v_b \in {b}, v_perf \in {perf}} : TRUE

NoLookup == [status |-> "none", TSR |-> Fin(0), beta |-> Fin(0),
             pitch_index |-> 0, TSR_index |-> 0, Cp |-> 0, Ct |-> 0]

-----------------------------------------------------------------------------
(* The drivetrain, the platform and their composition *)

J_G == 534          \* (kg*m^2) 534.116: generator and high speed shaft
J_R == 35444067     \* (kg*m^2) blades, hub and low speed shaft
rho == 1225         \* (g/m^3) 1.225 kg/m^3, density of air
A == 12469          \* (m^2) rotor area
eta_G == 97         \* (-) speed ratio between high and low speed shafts
R == 63             \* (m) radius of rotor
d_P == 128          \* (m) sqrt(d_Ph^2 + d_Pv^2) = 127.70
h == 200            \* (m) depth of water
d_BS == 3755        \* (cm) 37.550 m

\* Python's a[i] on a 1-based sequence.
At(a, idx) == a[idx + 1]

\* pierson_moskowitz_spectrum(U19_5, zeta, eta, t, random_phases)[0]: the elevation
\* is a function of its five arguments and of nothing else (lines 218-244).  It is
\* kept as the application itself; "plus" is a constant added to it afterwards.
wave_elevation(U19_5, zeta, eta, tm, phases) ==
    [U19_5 |-> U19_5, zeta |-> zeta, eta |-> eta, t |-> tm, phases |-> phases, plus |-> 0]

\* structure: the platform derivative, the relative wind speed, Cp and the wave
\* height at the platform.  Rows 0, 2 and 4 of E are unit rows, so entries 0, 2
\* and 4 of inv(E) @ F are v_zeta, v_eta and omega.  The three accelerations,
\* generalized forces over masses of 1e7 kg and more, are below the resolution
\* of the model and enter as 0; cos(alpha) is 1 at the small pitch angles of the
\* runs.
structure_body(x_1, b, omega_R, tm, perf, v_w, v_aveg, phases) ==
    LET zeta == x_1[1]
        v_zeta == x_1[2]
        v_eta == x_1[4]
        omega == x_1[6]
        w == wave_elevation(v_aveg, zeta, Fin(0), tm, phases)
        \* v_w + v_zeta + d_P*omega*cos(alpha), omega being in milliradians
        v_in == fadd(fadd(v_w, v_zeta), fdiv(fmul(Fin(d_P), omega), Fin(1000)))
        \* (omega_R*R)/v_in, omega_R being in milliradians a second
        TSR == fdiv(fmul(omega_R, Fin(R)), fmul(Fin(1000), v_in))
        c == CpCtCq(TSR, b, perf)
    IN  [dx1dt |-> <<v_zeta, Fin(0), v_eta, Fin(0), omega, Fin(0)>>,
         v_in |-> v_in,
         Cp |-> Fin(c.Cp),
         h_wave |-> [w EXCEPT !.plus = @ + h]]
structure(x_1, b, omega_R, tm, perf, v_w, v_aveg, phases) ==
    CHOOSE r \in {structure_body(v_x_1, v_b, v_omega_R, v_tm, v_perf, v_v_w, v_v_aveg, v_phases) : v_x_1 \in {x_1}, v_b \in {b}, v_omega_R \in {omega_R}, v_tm \in {tm}, v_perf \in {perf}, v_v_w \in {v_w}, v_v_aveg \in {v_aveg}, v_phases \in {phases}} : TRUE

\* The torque balance both drivetrain models end with (lines 561-569, 610-618):
\* P_A = 0.5*rho*A*v^3*Cp, T_A = P_A/omega, domega = (T_A - eta_G*T_E)/tildeJ_R.
\* Cp is in hundredths, powers in watts, torques in newton metres; the rotor
\* speed is in milliradians a second and its derivative in milliradians a
\* second squared, hence the two factors of 1000.
TorqueBalance_body(omega_R, v, T_E, Cp) ==
    LET tildeJ_R == eta_G * eta_G * J_G + J_R
        tildeT_E == fmul(Fin(eta_G), T_E)
        P_wind == fmul(Fin(RoundDiv(rho * A, 2000)), fmul(v, fmul(v, v)))
        P_A_ == fdiv(fmul(P_wind, Cp), Fin(100))
        T_A == fdiv(fmul(Fin(1000), P_A_), omega_R)
    IN  [domega_R |-> fdiv(fsub(T_A, tildeT_E), Fin(RoundDiv(tildeJ_R, 1000))),
         P_A |-> P_A_]
TorqueBalance(omega_R, v, T_E, Cp) ==
    CHOOSE r \in {TorqueBalance_body(v_omega_R, v_v, v_T_E, v_Cp) : v_omega_R \in {omega_R}, v_v \in {v}, v_T_E \in {T_E}, v_Cp \in {Cp}} : TRUE

WindTurbine(omega_R, v_in, b, T_E, tm, Cp) == TorqueBalance(omega_R, v_in, T_E, Cp)

WindTurbine_fixed(omega_R_fixed, v_w, b, T_E, tm, perf) ==
    LET TSR == fdiv(fmul(omega_R_fixed, Fin(R)), fmul(Fin(1000), v_w))
        Cp == Fin(CpCtCq(TSR, b, perf).Cp)
    IN  TorqueBalance(omega_R_fixed, v_w, T_E, Cp)

\* Variant used to test C12: the platform model is handed the rotor speed of
\* the fixed twin.
Betti_coupled(xv, tm, b, T_E, perf, v_w, v_aveg, phases) ==
    LET x1 == SubSeq(xv, 1, 6)
        omega_R == xv[7]
        omega_R_fixed == xv[8]
        s == structure(x1, b, omega_R_fixed, tm, perf, v_w, v_aveg, phases)
        d == WindTurbine(omega_R, s.v_in, b, T_E, tm, s.Cp)
        f == WindTurbine_fixed(omega_R_fixed, v_w, b, T_E, tm, perf)
    IN  [dxdt |-> s.dx1dt \o <<d.domega_R>> \o <<f.domega_R>>,
         h_wave |-> s.h_wave,
         P_A |-> d.P_A,
         P_A_fixed |-> f.P_A]

\* Betti (lines 646-654): x[:6] goes to structure, x[6] to WindTurbine and x[7]
\* to WindTurbine_fixed, which is given the wind sample and not v_in.
Betti_body(xv, tm, b, T_E, perf, v_w, v_aveg, phases) ==
    LET x1 == SubSeq(xv, 1, 6)
        omega_R == xv[7]
        omega_R_fixed == xv[8]
        s == structure(x1, b, omega_R, tm, perf, v_w, v_aveg, phases)
        d == WindTurbine(omega_R, s.v_in, b, T_E, tm, s.Cp)
        f == WindTurbine_fixed(omega_R_fixed, v_w, b, T_E, tm, perf)
    IN  [dxdt |-> s.dx1dt \o <<d.domega_R>> \o <<f.domega_R>>,
         h_wave |-> s.h_wave,
         P_A |-> d.P_A,
         P_A_fixed |-> f.P_A]
Betti(xv, tm, b, T_E, perf, v_w, v_aveg, phases) ==
    CHOOSE r \in {Betti_body(v_xv, v_tm, v_b, v_T_E, v_perf, v_v_w, v_v_aveg, v_phases) : v_xv \in {xv}, v_tm \in {tm}, v_b \in {b}, v_T_E \in {T_E}, v_perf \in {perf}, v_v_w \in {v_w}, v_v_aveg \in {v_aveg}, v_phases \in {phases}} : TRUE

-----------------------------------------------------------------------------
(* The table specification: a file is read once, then queried *)

TSRQueries ==
    {Fin(v) : v \in -1..(MaxAxisVal + 1)} \cup {PosInf, NegInf, NaN}

BetaQueries == {Fin(b) : b \in -2..MaxBeta}

NoArgs == [x0 |-> <<>>, t0 |-> 0, tf |-> 0, dt |-> 1, beta_0 |-> Fin(0), T_E |-> Fin(0),
           v_w |-> Fin(0), v_wind |-> <<>>, seed_wave |-> 0]

NoReturn == [t |-> <<>>, x |-> <<>>, v_wind |-> <<>>, wave_eta |-> <<>>, h_wave |-> <<>>,
             betas |-> <<>>, P_A |-> <<>>, P_fix |-> <<>>]

\* No force assembly and no controller call has been made.
NoForce == [status |-> "none"]
NoPitchCall == [status |-> "none"]

\* The state of the locals of rk4 before line 706 has run.
NotStarted ==
    /\ pc = "call" /\ exc = "none"
    /\ n = 0 /\ t = <<>> /\ tden = 1 /\ x = <<>> /\ i = 0
    /\ beta = Fin(0) /\ integral = 0 /\ error = <<>> /\ betas = <<>>
    /\ h_waves = <<>> /\ P_A = <<>> /\ P_fix = <<>>
    /\ random_phases = [key |-> 0, pos |-> 0, size |-> 0]
    /\ wave_eta = <<>> /\ evals = <<>> /\ x_raw = <<>> /\ t_sub = <<>>
    /\ ret = NoReturn
    /\ net_force = NoForce
    /\ pitch_call = NoPitchCall

TableInit ==
    /\ input_file \in Files
    /\ performance = NoTable
    /\ lookup = NoLookup
    /\ args = NoArgs
    /\ np_random = [key |-> 0, pos |-> 0]
    /\ NotStarted

\* performance = process_rotor_performance(input_file)
LoadTable ==
    /\ performance.status = "unloaded"
    /\ performance' = process_rotor_performance(input_file)
    /\ UNCHANGED <<input_file, lookup>>
    /\ UNCHANGED rvars
    /\ UNCHANGED uvars

\* One call CpCtCq(TSR, beta, performance) on the table that was returned.  The
\* function is pure and the table is not written after it is built, so one call
\* per behaviour, over every argument, covers every call.
Query ==
    /\ performance.status = "ok"
    /\ lookup.status = "none"
    /\ \E TSR \in TSRQueries, b \in BetaQueries :
           lookup' = CpCtCq(TSR, b, performance)
    /\ UNCHANGED <<input_file, performance>>
    /\ UNCHANGED rvars
    /\ UNCHANGED uvars

TableNext == LoadTable \/ Query

TableSpec == TableInit /\ [][TableNext]_vars

-----------------------------------------------------------------------------
(* rk4 *)

\* Element-wise arithmetic of numpy arrays of 8 floats.
vadd_body(u, v) == [c \in 1..Len(u) |-> fadd(u[c], v[c])]
vadd(u, v) ==
    CHOOSE r \in {vadd_body(v_u, v_v) : v_u \in {u}, v_v \in {v}} : TRUE
\* (num/den) * v, each element rounded once.
vscale_body(num, den, v) == [c \in 1..Len(v) |-> fdiv(fmul(Fin(num), v[c]), Fin(den))]
vscale(num, den, v) ==
    CHOOSE r \in {vscale_body(v_num, v_den, v_v) : v_num \in {num}, v_den \in {den}, v_v \in {v}} : TRUE

\* a[::stride] for stride > 0: the elements at 0-based indices 0, stride, 2*stride, ...
Strided(a, stride) ==
    [k \in 1..((Len(a) + stride - 1) \div stride) |-> a[(k - 1) * stride + 1]]
\* a[count:]
Dropped(a, count) ==
    IF count >= Len(a) THEN <<>> ELSE SubSeq(a, count + 1, Len(a))
\* a[:count]
Taken(a, count) ==
    IF count >= Len(a) THEN a ELSE SubSeq(a, 1, count)

\* steps = int(0.5 / dt), line 805
StepsOf(dt) == HalfSecond \div dt
\* discard_steps = int(500 / 0.5), line 807
discard_steps == DiscardTime \div HalfSecond

\* a[::steps][discard_steps:], the subsampling of lines 809-816
Subsampled(a, stride) == Dropped(Strided(a, stride), discard_steps)

\* A row np.empty left unwritten.
Unwritten == [c \in 1..8 |-> [k |-> "unwritten", v |-> 0]]

Raise(name) ==
    /\ pc' = "raised"
    /\ exc' = name

\* numpy's process-wide generator.  Its state is the key it was seeded with and
\* the number of values drawn since; a draw is named by the state it is made
\* from and its size, which is all that determines its values.
\* np.random.get_state(), line 713
np_random_get_state(g) == g
\* Variant used to test C11: the generator is not reseeded.
np_random_seed_skipped(g, s) == g
\* np.random.seed(s), line 715
np_random_seed(g, s) == [key |-> s, pos |-> 0]
\* np.random.rand(count), line 716: the values drawn and the state left behind
np_random_rand(g, count) ==
    [values |-> [key |-> g.key, pos |-> g.pos, size |-> count],
     state |-> [g EXCEPT !.pos = @ + count]]
\* Variant used to test C17: the saved state is not put back.
np_random_set_state_skipped(g, saved) == g
\* np.random.set_state(state_before), line 717
np_random_set_state(g, saved) == saved

\* Variant used to test C14: the quotient rounded up.
GridPoints_ceil(t0, tf, dt) == (tf - t0 + dt - 1) \div dt + 1
\* n = int((tf - t0) / dt) + 1, line 706, on times in whole ticks
GridPoints(t0, tf, dt) == (tf - t0) \div dt + 1

\* Lines 706-721 and 771-775: the grid, the state array, the phases, the
\* controller's variables and the empty histories.
Start ==
    /\ pc = "call"
    /\ LET count == GridPoints(args.t0, args.tf, args.dt)
           den == IF count > 1 THEN 2 * (count - 1) ELSE 2
           state_before == np_random_get_state(np_random)
           seeded == np_random_seed(np_random, args.seed_wave)
           draw == np_random_rand(seeded, 400)
       IN  /\ n' = count
           /\ tden' = den
           \* np.linspace(t0, tf, n): t0 + k*(tf - t0)/(n - 1)
           /\ t' = [k \in 1..count |->
                       IF count > 1 THEN den * args.t0 + 2 * (k - 1) * (args.tf - args.t0)
                       ELSE den * args.t0]
           /\ x' = [k \in 1..count |-> IF k = 1 THEN args.x0 ELSE Unwritten]
           /\ x_raw' = [k \in 1..count |-> IF k = 1 THEN args.x0 ELSE Unwritten]
           \* 2*np.pi*np.random.rand(400): the phases are named by the draw
           /\ random_phases' = draw.values
           /\ np_random' = np_random_set_state(draw.state, state_before)
           /\ error' = [k \in 1..count |-> "unwritten"]
    /\ integral' = 0
    /\ beta' = args.beta_0
    /\ betas' = <<>>
    /\ h_waves' = <<>>
    /\ P_A' = <<>>
    /\ P_fix' = <<>>
    /\ i' = 0
    /\ pc' = "loop"
    /\ UNCHANGED <<args, exc, wave_eta, evals, t_sub, ret>>

\* Variant used to test C9: the controller call of line 784 and the append of
\* line 777 switched on, the pitch moving by one unit a step.
ControlUpdate_on ==
    /\ beta' = fadd(beta, Fin(1))
    /\ integral' = integral + 1
    /\ error' = [error EXCEPT ![i + 1] = "written"]
    /\ betas' = Append(betas, beta)

\* Line 784 is a comment: the controller is not called, and line 777 is a
\* comment too, so a step leaves beta, integral, error and betas as they are.
ControlUpdate == UNCHANGED <<beta, integral, error, betas>>

\* Variant used to test C13: the four slopes weighted equally.
rk4_combine_unweighted(xi, dt, k1, k2, k3, k4) ==
    vadd(xi, vscale(dt, 6, vadd(vadd(k1, k2), vadd(k3, k4))))
\* Line 782: x[i] + dt * (k1 + 2*k2 + 2*k3 + k4) / 6
rk4_combine_body(xi, dt, k1, k2, k3, k4) ==
    vadd(xi, vscale(dt, 6, vadd(vadd(k1, vscale(2, 1, k2)), vadd(vscale(2, 1, k3), k4))))
rk4_combine(xi, dt, k1, k2, k3, k4) ==
    CHOOSE r \in {rk4_combine_body(v_xi, v_dt, v_k1, v_k2, v_k3, v_k4) : v_xi \in {xi}, v_dt \in {dt}, v_k1 \in {k1}, v_k2 \in {k2}, v_k3 \in {k3}, v_k4 \in {k4}} : TRUE

\* One pass of the loop of line 776: four Betti calls and the update of lines
\* 778-788.  v_wind[i] past the end of the series is an IndexError.
Step ==
    /\ pc = "loop"
    /\ i < n - 1
    /\ IF i >= Len(args.v_wind)
       THEN /\ Raise("IndexError")
            /\ UNCHANGED <<x, x_raw, h_waves, P_A, P_fix, evals, i>>
            /\ UNCHANGED <<beta, integral, error, betas>>
       ELSE LET dt == args.dt
                xi == At(x, i)
                ti == At(t, i)
                wind == Fin(At(args.v_wind, i))
                call(xv, tm) == [x |-> xv, t |-> tm, beta |-> beta, T_E |-> args.T_E,
                                 v_w |-> wind, wind_index |-> i, v_aveg |-> args.v_w,
                                 random_phases |-> random_phases]
                eval(cl) == Betti(cl.x, cl.t, cl.beta, cl.T_E, performance, cl.v_w,
                                  cl.v_aveg, cl.random_phases)
                half == (tden \div 2) * dt
            IN  \* each value is bound once it is computed, as the code binds k1..k4
                \E c1 \in {call(xi, ti)} :
                \E e1 \in {eval(c1)} :
                \E c2 \in {call(vadd(xi, vscale(dt, 2, e1.dxdt)), ti + half)} :
                \E k2 \in {eval(c2).dxdt} :
                \E c3 \in {call(vadd(xi, vscale(dt, 2, k2)), ti + half)} :
                \E k3 \in {eval(c3).dxdt} :
                \E c4 \in {call(vadd(xi, vscale(dt, 1, k3)), ti + tden * dt)} :
                \E k4 \in {eval(c4).dxdt} :
                \E next \in {rk4_combine(xi, dt, e1.dxdt, k2, k3, k4)} :
                /\ x' = [x EXCEPT ![i + 2] = next]
                /\ x_raw' = [x_raw EXCEPT ![i + 2] = next]
                /\ evals' = <<c1, c2, c3, c4>>
                /\ h_waves' = Append(h_waves, e1.h_wave)
                /\ P_A' = Append(P_A, e1.P_A)
                /\ P_fix' = Append(P_fix, e1.P_A_fixed)
                /\ ControlUpdate
                /\ i' = i + 1
                /\ UNCHANGED <<pc, exc>>
    /\ UNCHANGED <<args, n, t, tden, random_phases, np_random, wave_eta, t_sub, ret>>

\* x[:, col] on 0-based column col
Column_body(xs, col) == [r \in 1..Len(xs) |-> xs[r][col + 1]]
Column(xs, col) ==
    CHOOSE r \in {Column_body(v_xs, v_col) : v_xs \in {xs}, v_col \in {col}} : TRUE
\* x[:, col] = vals
SetColumn_body(xs, col, vals) ==
    [r \in 1..Len(xs) |-> [xs[r] EXCEPT ![col + 1] = vals[r]]]
SetColumn(xs, col, vals) ==
    CHOOSE r \in {SetColumn_body(v_xs, v_col, v_vals) : v_xs \in {xs}, v_col \in {col}, v_vals \in {vals}} : TRUE

\* (60 / (2*np.pi)) * v, elementwise: 9.549 * v
RadPerSecToRpm_body(vs) ==
    [r \in 1..Len(vs) |-> fdiv(fmul(Fin(9549), vs[r]), Fin(1000))]
RadPerSecToRpm(vs) ==
    CHOOSE r \in {RadPerSecToRpm_body(v_vs) : v_vs \in {vs}} : TRUE
\* -np.rad2deg(v), elementwise
NegDeg_body(vs) == [r \in 1..Len(vs) |-> fneg(rad2deg(vs[r]))]
NegDeg(vs) ==
    CHOOSE r \in {NegDeg_body(v_vs) : v_vs \in {vs}} : TRUE
\* -v, elementwise
Negated_body(vs) == [r \in 1..Len(vs) |-> fneg(vs[r])]
Negated(vs) ==
    CHOOSE r \in {Negated_body(v_vs) : v_vs \in {vs}} : TRUE
\* v + d_BS, elementwise
PlusBS_body(vs) == [r \in 1..Len(vs) |-> fadd(vs[r], Fin(d_BS))]
PlusBS(vs) ==
    CHOOSE r \in {PlusBS_body(v_vs) : v_vs \in {vs}} : TRUE

\* line 791: x[:, 4] = -np.rad2deg(x[:, 4])
PitchToDegrees(xs) == SetColumn(xs, 4, NegDeg(Column(xs, 4)))
\* line 792: x[:, 5] = -np.rad2deg(x[:, 5])
PitchRateToDegrees(xs) == SetColumn(xs, 5, NegDeg(Column(xs, 5)))
\* line 793: x[:, 6] = (60 / (2*np.pi))*x[:, 6]
RotorSpeedToRpm(xs) == SetColumn(xs, 6, RadPerSecToRpm(Column(xs, 6)))
\* line 794: x[:, 7] = (60 / (2*np.pi))*x[:, 7]
FixedRotorSpeedToRpm(xs) == SetColumn(xs, 7, RadPerSecToRpm(Column(xs, 7)))
\* lines 793-794
RotorSpeedsToRpm(xs) == FixedRotorSpeedToRpm(RotorSpeedToRpm(xs))
\* x[:, col] = -x[:, col]
NegateColumn(xs, col) == SetColumn(xs, col, Negated(Column(xs, col)))
\* Variant used to test C10: the slice 0:3 in place of 0:4.
NegateTranslational_short(xs) ==
    NegateColumn(NegateColumn(NegateColumn(xs, 0), 1), 2)

\* line 796: x[:, 0:4] = -x[:, 0:4]
NegateTranslational(xs) ==
    NegateColumn(NegateColumn(NegateColumn(NegateColumn(xs, 0), 1), 2), 3)
\* line 797: x[:, 2] += d_BS
ShiftHeave(xs) == SetColumn(xs, 2, PlusBS(Column(xs, 2)))

\* Lines 791-797, after the loop has ended.
PostProcess ==
    /\ pc = "loop"
    /\ i = n - 1
    /\ x' = ShiftHeave(NegateTranslational(RotorSpeedsToRpm(
                PitchRateToDegrees(PitchToDegrees(x)))))
    /\ pc' = "wave"
    /\ UNCHANGED <<args, exc, n, t, tden, i, beta, integral, error, betas, h_waves, P_A,
                   P_fix, random_phases, np_random, wave_eta, evals, x_raw, t_sub, ret>>

\* Lines 801-803: the elevation at zeta = -2.61426271 for every grid time.
WaveElevation ==
    /\ pc = "wave"
    /\ wave_eta' = [k \in 1..Len(t) |->
                       wave_elevation(args.v_w, Fin(-3), Fin(0), t[k], random_phases)]
    /\ pc' = "subsample"
    /\ UNCHANGED <<args, exc, n, t, tden, x, i, beta, integral, error, betas, h_waves,
                   P_A, P_fix, random_phases, np_random, evals, x_raw, t_sub, ret>>

\* Variant used to test C19: an index into an empty sequence reads a 0.
Subscript_lenient(a, idx) ==
    IF Len(a) = 0 THEN [status |-> "ok", value |-> 0]
    ELSE [status |-> "ok", value |-> IF idx < 0 THEN a[Len(a) + idx + 1] ELSE a[idx + 1]]
\* Python's a[idx] for idx in -len(a)..len(a)-1, an IndexError outside: the
\* subscripts P_A_sub[-1], P_fix_sub[-1] (lines 817-818) and t_sub[0] (line 821)
Subscript(a, idx) ==
    IF idx >= Len(a) \/ idx < -Len(a) THEN [status |-> "IndexError", value |-> 0]
    ELSE [status |-> "ok", value |-> IF idx < 0 THEN a[Len(a) + idx + 1] ELSE a[idx + 1]]

\* Lines 805-821.  A slice step of 0 is a ValueError (line 809); [-1] of an empty
\* list (line 817) and [0] of an empty array (line 821) are IndexErrors.
Subsample ==
    /\ pc = "subsample"
    /\ LET steps == StepsOf(args.dt)
       IN  IF steps = 0
           THEN Raise("ValueError") /\ UNCHANGED <<t_sub, ret>>
           ELSE LET ts == Subsampled(t, steps)
                    P_A_sub == Subsampled(P_A, steps)
                    P_fix_sub == Subsampled(P_fix, steps)
                    P_A_last == Subscript(P_A_sub, -1)
                    P_fix_last == Subscript(P_fix_sub, -1)
                    t_first == Subscript(ts, 0)
                IN  IF P_A_last.status # "ok" \/ P_fix_last.status # "ok"
                       \/ t_first.status # "ok"
                    THEN Raise("IndexError") /\ UNCHANGED <<t_sub, ret>>
                    ELSE /\ t_sub' = ts
                         /\ ret' = [t |-> [k \in 1..Len(ts) |-> ts[k] - t_first.value],
                                    x |-> Subsampled(x, steps),
                                    v_wind |-> Subsampled(Taken(args.v_wind, Len(t)), steps),
                                    wave_eta |-> Subsampled(wave_eta, steps),
                                    h_wave |-> Subsampled(h_waves, steps),
                                    betas |-> Subsampled(betas, steps),
                                    P_A |-> Append(P_A_sub, P_A_last.value),
                                    P_fix |-> Append(P_fix_sub, P_fix_last.value)]
                         /\ pc' = "returned"
                         /\ exc' = exc
    /\ UNCHANGED <<args, n, t, tden, x, i, beta, integral, error, betas, h_waves, P_A,
                   P_fix, random_phases, np_random, wave_eta, evals, x_raw>>

-----------------------------------------------------------------------------
(* The run specification: one call of rk4 on enumerated arguments *)

\* The table of the runs: three pitch angles (tenths of a degree), three TSR values.
RunFile == [pitch |-> <<0, 38, 100>>, tsr |-> <<2, 8, 13>>, nlines |-> 22]

\* The wind series: entry k (0-based) of a series of any length.
WindAt(k) == 6 + (k % 3)

\* Initial states: the platform part is that of the driver (line 876) in model
\* units with a surge velocity; the rotor speeds (variable, fixed) are both
\* positive, or one of them is zero or negative.
RotorSpeeds == {<<1269, 1269>>, <<0, 1269>>, <<-1269, 1269>>, <<1269, 0>>}
InitialStates ==
    {<<Fin(-3), Fin(1), Fin(3755), Fin(-1), Fin(1), Fin(-1), Fin(w[1]), Fin(w[2])>> :
        w \in RotorSpeeds}

\* Two values of seed_wave, which the driver takes from seeds[2] (line 873).
WaveSeeds == {7762480, 4021}
\* What the caller's use of np.random left the generator in before the call.
GeneratorStates == {[key |-> 0, pos |-> 0], [key |-> 7762480, pos |-> 3]}
\* The seed of a run with the generator state it is called in.
SeededCalls ==
    {sg \in WaveSeeds \X GeneratorStates : sg[1] = 7762480 \/ sg[2].pos = 0}

RunInit ==
    /\ input_file = RunFile
    /\ performance = process_rotor_performance(RunFile)
    /\ lookup = NoLookup
    /\ \E x0 \in InitialStates, tf \in 0..MaxTf, dt \in 1..MaxDt, b \in {0, 67},
          sg \in SeededCalls :
          \E len \in {m \in ((tf \div dt) - 1)..((tf \div dt) + 2) : m >= 0} :
          /\ args = [x0 |-> x0, t0 |-> 0, tf |-> tf, dt |-> dt, beta_0 |-> Fin(b),
                     T_E |-> Fin(43094), v_w |-> Fin(7),
                     v_wind |-> [k \in 1..len |-> WindAt(k - 1)],
                     seed_wave |-> sg[1]]
          /\ np_random = sg[2]
    /\ NotStarted

RunNext ==
    /\ (Start \/ Step \/ PostProcess \/ WaveElevation \/ Subsample)
    /\ UNCHANGED tvars
    /\ UNCHANGED uvars

RunSpec == RunInit /\ [][RunNext]_vars

\* The calls whose end is checked: every horizon, step size and wind length of
\* RunInit, from the driver's rotor speeds, pitch and seed.
FairInit ==
    /\ RunInit
    /\ args.x0[7] = Fin(1269) /\ args.x0[8] = Fin(1269)
    /\ args.beta_0 = Fin(67)
    /\ args.seed_wave = 7762480 /\ np_random.pos = 0

\* rk4 is one sequential call: whenever it has a next statement, it runs it.
RunFairSpec == FairInit /\ [][RunNext]_vars /\ WF_vars(RunNext)

-----------------------------------------------------------------------------
(* Claims about the table lookup, checked under TableSpec *)

Looked == lookup.status # "none"
QueryDeg == rad2deg(lookup.beta)

\* a[k] < q < a[k+1] for the 1-based position k of axis a
Between(a, q, k) == flt(Fin(a[k]), q) /\ flt(q, Fin(a[k + 1]))

\* The 0-based index the claim of C2 prescribes for a query q in the gap k, k+1:
\* the lower one when q is strictly closer to it, otherwise the upper one.
PrescribedIndex(a, q, k) ==
    IF q.v - a[k] < a[k + 1] - q.v THEN k - 1 ELSE k

\* C1: a query whose TSR is the axis value TSR_list[i] and whose pitch in degrees
\* is the axis value pitch_list[j] returns exactly (C_p[i][j], C_t[i][j]).
C1_GridVertexExact ==
    Looked =>
        \A r \in 1..Len(performance.TSR_list), c \in 1..Len(performance.pitch_list) :
            (lookup.TSR = Fin(performance.TSR_list[r])
             /\ QueryDeg = Fin(performance.pitch_list[c]))
            => /\ lookup.status = "ok"
               /\ lookup.Cp = performance.C_p[r][c]
               /\ lookup.Ct = performance.C_t[r][c]

\* A vertex that is neither the first nor the last point of either axis was queried.
C1_Witness ==
    /\ lookup.status = "ok"
    /\ \E r \in 2..(Len(performance.TSR_list) - 1),
          c \in 2..(Len(performance.pitch_list) - 1) :
           /\ lookup.TSR = Fin(performance.TSR_list[r])
           /\ QueryDeg = Fin(performance.pitch_list[c])
           /\ lookup.Cp = CpCellOf(r - 1, c - 1)

\* C2: a query strictly between two adjacent axis values selects the lower index
\* when strictly closer to the lower value, the upper index when strictly closer to
\* the upper value or exactly at the midpoint, on either axis; Cp and Ct are the
\* contents of that one cell, the same for both.
C2_NearestNeighbour ==
    Looked =>
        /\ \A k \in 1..(Len(performance.TSR_list) - 1) :
               Between(performance.TSR_list, lookup.TSR, k)
               => lookup.TSR_index = PrescribedIndex(performance.TSR_list, lookup.TSR, k)
        /\ \A k \in 1..(Len(performance.pitch_list) - 1) :
               Between(performance.pitch_list, QueryDeg, k)
               => lookup.pitch_index = PrescribedIndex(performance.pitch_list, QueryDeg, k)
        /\ lookup.status = "ok"
           => /\ lookup.Cp = CpCellOf(lookup.TSR_index, lookup.pitch_index)
              /\ lookup.Ct = CtCellOf(lookup.TSR_index, lookup.pitch_index)

\* A TSR exactly at a midpoint resolved to the upper index while the pitch, strictly
\* closer to the lower neighbour, resolved to the lower index.
C2_Witness ==
    /\ lookup.status = "ok"
    /\ \E k \in 1..(Len(performance.TSR_list) - 1) :
           /\ Between(performance.TSR_list, lookup.TSR, k)
           /\ 2 * lookup.TSR.v = performance.TSR_list[k] + performance.TSR_list[k + 1]
           /\ lookup.TSR_index = k
    /\ \E k \in 1..(Len(performance.pitch_list) - 1) :
           /\ Between(performance.pitch_list, QueryDeg, k)
           /\ 2 * QueryDeg.v < performance.pitch_list[k] + performance.pitch_list[k + 1]
           /\ lookup.pitch_index = k - 1

BothAxesNonEmpty ==
    Len(performance.TSR_list) > 0 /\ Len(performance.pitch_list) > 0

\* C3: a query below the first axis value uses index 0, a query above the last
\* uses the last index, and no query of a table with points on both axes, in or
\* out of range, ends in an error or an index outside the grid.
C3_ClampToBoundary ==
    (Looked /\ BothAxesNonEmpty) =>
        /\ lookup.status = "ok"
        /\ lookup.TSR_index \in 0..(Len(performance.TSR_list) - 1)
        /\ lookup.pitch_index \in 0..(Len(performance.pitch_list) - 1)
        /\ flt(lookup.TSR, Fin(performance.TSR_list[1])) => lookup.TSR_index = 0
        /\ flt(Fin(performance.TSR_list[Len(performance.TSR_list)]), lookup.TSR)
           => lookup.TSR_index = Len(performance.TSR_list) - 1
        /\ flt(QueryDeg, Fin(performance.pitch_list[1])) => lookup.pitch_index = 0
        /\ flt(Fin(performance.pitch_list[Len(performance.pitch_list)]), QueryDeg)
           => lookup.pitch_index = Len(performance.pitch_list) - 1

\* An infinite TSR above a three-point axis and a pitch below the first pitch value.
C3_Witness ==
    /\ lookup.status = "ok"
    /\ Len(performance.TSR_list) = 3
    /\ Len(performance.pitch_list) >= 2
    /\ lookup.TSR = PosInf
    /\ lookup.TSR_index = 2
    /\ flt(QueryDeg, Fin(performance.pitch_list[1]))
    /\ lookup.pitch_index = 0

\* C4: a table with fewer than 2 points on the pitch axis or on the TSR axis is
\* rejected when it is constructed, and no lookup returns coefficients from one.
C4_SmallTableRejected ==
    /\ performance.status = "ok"
       => Len(performance.pitch_list) >= 2 /\ Len(performance.TSR_list) >= 2
    /\ lookup.status = "ok"
       => Len(performance.pitch_list) >= 2 /\ Len(performance.TSR_list) >= 2

-----------------------------------------------------------------------------
(* Claims about rk4 and the drivetrain, checked under RunSpec *)

Returned == pc = "returned"
RetainedSteps == StepsOf(args.dt)
\* The 0-based grid index the claims give entry j (1-based) of a returned array.
SourceIndex(j) == (discard_steps + j - 1) * RetainedSteps

NonPositive(v) == IsFin(v) /\ v.v <= 0
\* Both rotor speeds of the initial state are positive, as the callers supply them.
PositiveRotorSpeeds == args.x0[7].v > 0 /\ args.x0[8].v > 0
FiniteRow(row) == \A c \in 7..8 : row[c].k \in {"fin", "unwritten"}

\* C5: a drivetrain evaluation reached with a rotor speed that is zero or negative
\* aborts the run with an error; no state derived from an infinite or undefined
\* aerodynamic torque is stored, and none is returned.
C5_ZeroRotorSpeedAborts ==
    /\ (\E k \in 1..Len(evals) : NonPositive(evals[k].x[7]) \/ NonPositive(evals[k].x[8]))
       => pc = "raised"
    /\ \A r \in 1..Len(x) : FiniteRow(x[r])
    /\ Returned => \A r \in 1..Len(ret.x) : FiniteRow(ret.x[r])

\* C6: with a wind series shorter than the n grid points rk4 ends in an error: it
\* reads no wind value outside the series and returns no bundle (so none whose
\* wind array is shorter than its time array).  Stated for runs whose rotor
\* speeds are positive.
C6_ShortWindAborts ==
    (pc # "call" /\ PositiveRotorSpeeds /\ Len(args.v_wind) < n) =>
        /\ \A k \in 1..Len(evals) : evals[k].wind_index < Len(args.v_wind)
        /\ ~Returned

\* C7: whenever rk4 returns (the wind series being long enough), the time, state,
\* wind, wave-elevation, wave-height and both power arrays have one length, and
\* entry j of each is that of integrator step (discard_steps + j)*steps.  Stated
\* for runs whose rotor speeds are positive.
C7_ArraysAligned ==
    (Returned /\ PositiveRotorSpeeds /\ Len(args.v_wind) >= n) =>
        /\ Len(ret.x) = Len(ret.t)
        /\ Len(ret.v_wind) = Len(ret.t)
        /\ Len(ret.wave_eta) = Len(ret.t)
        /\ Len(ret.h_wave) = Len(ret.t)
        /\ Len(ret.P_A) = Len(ret.t)
        /\ Len(ret.P_fix) = Len(ret.t)
        /\ \A j \in 1..Len(ret.t) :
               /\ ret.t[j] = At(t, SourceIndex(j)) - At(t, SourceIndex(1))
               /\ ret.x[j] = At(x, SourceIndex(j))
               /\ ret.v_wind[j] = At(args.v_wind, SourceIndex(j))
               /\ ret.wave_eta[j] = At(wave_eta, SourceIndex(j))
               /\ ret.h_wave[j] = At(h_waves, SourceIndex(j))
               /\ ret.P_A[j] = At(P_A, SourceIndex(j))
               /\ ret.P_fix[j] = At(P_fix, SourceIndex(j))

\* C8: whenever rk4 returns, the first retained sample is the grid point exactly
\* the warm-up time (500 s) after t0, no retained sample is earlier, consecutive
\* retained samples are the output interval (0.5 s) apart, and the returned time
\* array starts at 0.  Stated for runs whose rotor speeds are positive and whose
\* wind series covers the grid.
C8_DiscardsWarmup ==
    (Returned /\ PositiveRotorSpeeds /\ Len(args.v_wind) >= n) =>
        /\ t_sub[1] = tden * (args.t0 + DiscardTime)
        /\ \A j \in 1..Len(t_sub) : t_sub[j] >= tden * (args.t0 + DiscardTime)
        /\ \A j \in 1..(Len(t_sub) - 1) : t_sub[j + 1] - t_sub[j] = tden * HalfSecond
        /\ ret.t[1] = 0

\* C9: through a whole run the pitch handed to every derivative evaluation, all
\* four stages of every step, is beta_0: the controller is never invoked, and no
\* step changes beta, the integral accumulator or the error history.
C9_PitchHeldConstant ==
    pc # "call" =>
        /\ beta = args.beta_0
        /\ integral = 0
        /\ betas = <<>>
        /\ \A k \in 1..Len(error) : error[k] = "unwritten"
        /\ \A k \in 1..Len(evals) : evals[k].beta = args.beta_0

\* A run with a non-zero pitch that took at least eight steps and returned.
C9_Witness ==
    /\ Returned
    /\ i >= 8
    /\ Len(evals) = 4
    /\ args.beta_0 = Fin(67)

C10_Rpm(v) == fdiv(fmul(Fin(9549), v), Fin(1000))

\* What C10 prescribes for a row of the raw trajectory.
C10_Expected(raw) ==
    <<fneg(raw[1]), fneg(raw[2]), fadd(fneg(raw[3]), Fin(3755)), fneg(raw[4]),
      fneg(rad2deg(raw[5])), fneg(rad2deg(raw[6])), C10_Rpm(raw[7]), C10_Rpm(raw[8])>>

\* C10: every row of the trajectory, row 0 included, is post-processed exactly
\* once and only after the last integration step: pitch and pitch rate become the
\* negated degrees of the raw radians, both rotor speeds raw*60/(2*pi), surge,
\* surge velocity and heave velocity -raw, heave -raw + 37.550; no integration
\* step reads a post-processed value.
C10_PostProcessedOnce ==
    /\ pc = "loop" => x = x_raw
    /\ (pc \in {"loop", "wave", "subsample", "returned"} /\ Len(evals) = 4)
       => evals[1].x = x_raw[i]
    /\ pc \in {"wave", "subsample", "returned"}
       => /\ Len(x) = n
          /\ \A r \in 1..Len(x) : x[r] = C10_Expected(x_raw[r])
    /\ Returned
       => \A j \in 1..Len(ret.x) : ret.x[j] = C10_Expected(At(x_raw, SourceIndex(j)))

\* A returned run of at least two retained rows whose initial state has no zero
\* entry, so that every conversion shows.
C10_Witness ==
    /\ Returned
    /\ Len(ret.x) >= 2
    /\ \A c \in 1..8 : IsFin(x_raw[1][c]) /\ x_raw[1][c].v # 0
    /\ \A c \in 1..8 : ret.x[1][c] # At(x_raw, SourceIndex(1))[c]

-----------------------------------------------------------------------------
(* Claims about the wave phases and the random generator, checked under RunSpec *)

\* The first 400 values of the generator seeded with seed.
C11_PhasesOf(seed) == [key |-> seed, pos |-> 0, size |-> 400]

\* Every use of the phases so far read the array random_phases holds.
C11_ReadersAgree ==
    /\ \A k \in 1..Len(evals) : evals[k].random_phases = random_phases
    /\ \A k \in 1..Len(h_waves) : h_waves[k].phases = random_phases
    /\ \A k \in 1..Len(wave_eta) : wave_eta[k].phases = random_phases

\* C11: in one rk4 run the phase array is generated exactly once, before the
\* first step, from seed_wave alone (whatever state the generator was in, so two
\* runs with the same seed_wave use the same array); every derivative evaluation
\* and the wave-elevation pass read that array, and nothing modifies it.
C11_PhasesGeneratedOnce ==
    /\ [](pc # "call" => /\ random_phases = C11_PhasesOf(args.seed_wave)
                          /\ C11_ReadersAgree)
    /\ [][random_phases' # random_phases => pc = "call" /\ pc' = "loop" /\ i' = 0]_vars

\* A returned run that made derivative evaluations and the elevation pass, from
\* a generator that had been seeded with the run's seed_wave and drawn from.
C11_Witness ==
    /\ Returned
    /\ Len(evals) = 4 /\ Len(h_waves) >= 1 /\ Len(wave_eta) >= 2
    /\ np_random.key = args.seed_wave /\ np_random.pos > 0

\* C17: rk4 leaves the process-wide generator as it found it: no step of the
\* call changes its state, so after the phases have been drawn the state is
\* the one the caller left, for every seed_wave.
C17_GeneratorRestored == [][np_random' = np_random]_vars

\* The phases have been drawn and the generator is not in the state that
\* seeding with seed_wave and drawing 400 values leaves.
C17_Witness ==
    /\ pc # "call"
    /\ random_phases.size = 400
    /\ np_random \in GeneratorStates
    /\ np_random # [key |-> args.seed_wave, pos |-> 400]

-----------------------------------------------------------------------------
(* Claims about the fixed-speed twin and the integration step, under RunSpec *)

\* The latest step has run and the loop has not been left.
C12_Stepped == pc = "loop" /\ Len(evals) = 4

\* Betti as the latest step called it, at another state and time.
C12_Deriv(xv, tm) ==
    Betti(xv, tm, evals[1].beta, evals[1].T_E, performance, evals[1].v_w,
          evals[1].v_aveg, evals[1].random_phases)

\* Other values of the fixed twin's rotor speed, and other coupled sub-states.
C12_OtherFixedSpeeds == {Fin(0), Fin(700)}
C12_Shifts == {-2}
C12_WithFixedSpeed(xv, w) == [xv EXCEPT ![8] = w]
C12_ShiftedCoupled(xv, d) == [c \in 1..8 |-> IF c = 8 THEN xv[8] ELSE fadd(xv[c], Fin(d))]

\* The latest step redone from the state xa: its four derivative evaluations at
\* the stage points of lines 778-781 and the row of line 782 agree with the
\* step that ran on the first seven components, the variable-speed power and
\* the platform wave height.
C12_SameCoupledStep(xa) ==
    LET dt == args.dt
        tm == evals[1].t
        half == (tden \div 2) * dt
    IN  \A e1 \in {C12_Deriv(xa, tm)} :
        \A k2 \in {C12_Deriv(vadd(xa, vscale(dt, 2, e1.dxdt)), tm + half).dxdt} :
        \A k3 \in {C12_Deriv(vadd(xa, vscale(dt, 2, k2)), tm + half).dxdt} :
        \A k4 \in {C12_Deriv(vadd(xa, vscale(dt, 1, k3)), tm + tden * dt).dxdt} :
            /\ SubSeq(rk4_combine(xa, dt, e1.dxdt, k2, k3, k4), 1, 7)
                   = SubSeq(At(x_raw, i), 1, 7)
            /\ e1.P_A = P_A[Len(P_A)]
            /\ e1.h_wave = h_waves[Len(h_waves)]

\* C12: the fixed-speed twin never influences the coupled state.  A step started
\* from a state that differs only in x[7] writes the same first seven components
\* and yields the same variable-speed power and platform wave height, so by
\* induction over the steps two runs that differ only in x0[7] agree on them at
\* every step; and the fixed-speed derivative and power do not change when
\* x[0..6] do.
C12_TwinIsolated ==
    C12_Stepped =>
        /\ \A w \in C12_OtherFixedSpeeds :
               C12_SameCoupledStep(C12_WithFixedSpeed(evals[1].x, w))
        /\ \A here \in {C12_Deriv(evals[1].x, evals[1].t)} :
           \A d \in C12_Shifts :
           \A there \in {C12_Deriv(C12_ShiftedCoupled(evals[1].x, d), evals[1].t)} :
               /\ there.dxdt[8] = here.dxdt[8]
               /\ there.P_A_fixed = here.P_A_fixed
               /\ here.P_A_fixed = P_fix[Len(P_fix)]

\* A second step has run from a state whose fixed-twin speed is positive, and
\* another fixed speed gives another fixed-twin power there: the twin's
\* input matters to the twin.
C12_Witness ==
    /\ C12_Stepped
    /\ i >= 2
    /\ evals[1].x[8].v > 0 /\ evals[1].x[7].v > 0
    /\ \E w \in C12_OtherFixedSpeeds :
          C12_Deriv(C12_WithFixedSpeed(evals[1].x, w), evals[1].t).P_A_fixed
              # P_fix[Len(P_fix)]

\* The derivative a recorded Betti call returned.
C13_Slope(cl) ==
    Betti(cl.x, cl.t, cl.beta, cl.T_E, performance, cl.v_w, cl.v_aveg,
          cl.random_phases).dxdt

\* xv + (num/den)*dt*k
C13_Ahead(xv, num, den, k) ==
    [c \in 1..8 |-> fadd(xv[c], fdiv(fmul(Fin(num * args.dt), k[c]), Fin(den)))]

\* xv + dt/6*(k1 + 2*k2 + 2*k3 + k4)
C13_Update(xv, k1, k2, k3, k4) ==
    [c \in 1..8 |->
        fadd(xv[c],
             fdiv(fmul(Fin(args.dt),
                       fadd(fadd(k1[c], fmul(Fin(2), k2[c])),
                            fadd(fmul(Fin(2), k3[c]), k4[c]))),
                  Fin(6)))]

\* The four calls of the latest step, which was step number i - 1.
C13_LatestStep ==
    LET xi == At(x_raw, i - 1)
        ti == At(t, i - 1)
        half == (tden \div 2) * args.dt
    IN  /\ \A k \in 1..4 :
              /\ evals[k].wind_index = i - 1
              /\ evals[k].v_w = Fin(At(args.v_wind, i - 1))
              /\ evals[k].beta = beta
              /\ evals[k].T_E = args.T_E
        /\ evals[1].x = xi /\ evals[1].t = ti
        /\ evals[2].t = ti + half
        /\ evals[3].t = ti + half
        /\ evals[4].t = ti + 2 * half
        /\ \A k1 \in {C13_Slope(evals[1])} :
              /\ evals[2].x = C13_Ahead(xi, 1, 2, k1)
              /\ \A k2 \in {C13_Slope(evals[2])} :
                    /\ evals[3].x = C13_Ahead(xi, 1, 2, k2)
                    /\ \A k3 \in {C13_Slope(evals[3])} :
                          /\ evals[4].x = C13_Ahead(xi, 1, 1, k3)
                          /\ \A k4 \in {C13_Slope(evals[4])} :
                                At(x_raw, i) = C13_Update(xi, k1, k2, k3, k4)

\* C13: step i evaluates the derivative four times, in order, at (x[i], t[i]),
\* (x[i] + dt/2*k1, t[i] + dt/2), (x[i] + dt/2*k2, t[i] + dt/2) and
\* (x[i] + dt*k3, t[i] + dt), all with the wind sample v_wind[i], the same pitch
\* and torque, then sets x[i+1] = x[i] + dt/6*(k1 + 2*k2 + 2*k3 + k4) from x[i]
\* alone; the steps run in increasing i, none skipped or repeated: while the
\* loop runs rows 0..i are written and the later ones are not, and every pass
\* moves i on by one and leaves the rows written before as they are.
C13_ClassicalRK4 ==
    /\ [](pc = "loop" =>
            /\ \A r \in 1..n : (x_raw[r] = Unwritten) <=> (r > i + 1)
            /\ Len(evals) = 4 => C13_LatestStep)
    /\ [][pc = "loop" /\ pc' = "loop" =>
            /\ i' = i + 1
            /\ \A r \in 1..(i + 1) : x_raw'[r] = x_raw[r]]_vars

\* Three steps have run with a slope that is not the same at the four stages of
\* the latest one, so that the weights of the update matter.
C13_Witness ==
    /\ pc = "loop" /\ Len(evals) = 4 /\ i >= 3
    /\ PositiveRotorSpeeds
    /\ evals[1].x # evals[2].x
    /\ C13_Slope(evals[1]) # C13_Slope(evals[4])
    /\ \A c \in 1..8 : IsFin(At(x_raw, i)[c])

-----------------------------------------------------------------------------
(* Claims about the time grid and the end of the call *)

\* floor((tf - t0)/dt) for t0 <= tf and dt > 0
C14_Quotient ==
    CHOOSE q \in 0..(args.tf - args.t0) :
        q * args.dt <= args.tf - args.t0 /\ args.tf - args.t0 < (q + 1) * args.dt

\* The wind series has a sample for every pass of the loop.
C14_WindCoversLoop == Len(args.v_wind) >= n - 1

\* The loop has been left, by its end or by the end of the call.
C14_LoopLeft == pc \in {"wave", "subsample", "returned", "raised"}

\* C14: for every t0 <= tf and dt > 0 rk4 builds a grid of exactly
\* n = floor((tf - t0)/dt) + 1 points that starts at t0, stores exactly n states
\* of which x[0] is the given initial state, and terminates after exactly n - 1
\* updates (given a wind sample for each of them): the loop is left with n - 1
\* updates made and every row written, and the call comes to an end.
C14_GridAndTermination ==
    /\ [](pc # "call" =>
            /\ args.t0 <= args.tf /\ args.dt > 0
            /\ n = C14_Quotient + 1
            /\ Len(t) = n /\ t[1] = tden * args.t0
            /\ Len(x) = n /\ Len(x_raw) = n /\ x_raw[1] = args.x0
            /\ i <= n - 1
            /\ Len(P_A) = i /\ Len(h_waves) = i /\ Len(P_fix) = i
            /\ (C14_LoopLeft /\ C14_WindCoversLoop) =>
                   /\ i = n - 1
                   /\ \A r \in 1..n : x_raw[r] # Unwritten)
    /\ <>(pc \in {"returned", "raised"})

\* A call with a dt that does not divide tf - t0 has left the loop after three
\* updates or more and returned.
C14_Witness ==
    /\ Returned
    /\ (args.tf - args.t0) % args.dt # 0
    /\ n >= 4 /\ i = n - 1

\* C18: for every (t0, tf, dt), also when dt does not divide tf - t0, the grid is
\* consistent with the integration step: t[i] = t0 + i*dt for every i, so the
\* time handed to the fourth stage of a step, t[i] + dt, is the time handed to
\* the first stage of the next step, t[i+1]; and the last grid time does not
\* exceed tf.  Times are numerators over tden.  Stated for runs whose rotor
\* speeds are positive and whose wind series covers the grid.
C18_GridMatchesStep ==
    (pc # "call" /\ PositiveRotorSpeeds /\ Len(args.v_wind) >= n) =>
        /\ \A k \in 0..(n - 1) : At(t, k) = tden * (args.t0 + k * args.dt)
        /\ At(t, n - 1) <= tden * args.tf
        /\ (pc = "loop" /\ Len(evals) = 4) => evals[4].t = At(t, i)

\* int(0.5/dt): how many steps of dt fit into the output interval
C19_Stride ==
    CHOOSE q \in 0..HalfSecond : q * args.dt <= HalfSecond /\ HalfSecond < (q + 1) * args.dt

\* The grid indices that are a multiple of the stride and outlast the discarded
\* output samples.
C19_Survivors ==
    {k \in 0..(n - 1) :
        C19_Stride > 0 /\ k % C19_Stride = 0 /\ k >= C19_Stride * (DiscardTime \div HalfSecond)}

\* C19: rk4 never returns an empty or partly empty bundle.  When the horizon is
\* too short for any sample to survive the discard, or dt is larger than the
\* output interval so that the stride is zero, the call does not return (it
\* ends in an error); and when it returns, the time, state and power arrays each
\* hold at least one entry.
C19_NoEmptyBundle ==
    /\ Returned =>
          /\ Len(ret.t) >= 1 /\ Len(ret.x) >= 1
          /\ Len(ret.P_A) >= 1 /\ Len(ret.P_fix) >= 1
          /\ args.dt <= HalfSecond
          /\ C19_Survivors # {}
    /\ (pc = "raised" /\ i = n - 1 /\ Len(wave_eta) = n) =>
          exc \in {"ValueError", "IndexError"}

\* The loop and the elevation pass have run over a grid of three points or more
\* and the call has ended in an IndexError, for want of a surviving sample.
C19_Witness ==
    /\ pc = "raised" /\ exc = "IndexError"
    /\ n >= 3 /\ i = n - 1 /\ Len(wave_eta) = n
    /\ C19_Stride > 0
    /\ C19_Survivors = {}

-----------------------------------------------------------------------------
(* The force assembly of structure (lines 510-521) *)

\* Hydrodynamic drag contributions are drawn from -MaxDrag..MaxDrag.
MaxDrag == 1

\* What lines 375-508 hand to the sums of lines 510-514: the weight, buoyancy,
\* tie-rod, hydrodynamic-drag, wave and wind contributions, each a triple
\* <<zeta, eta, alpha>> in model units of force, the velocities of the state and
\* the two products M_d*omega**2*sin(alpha) and M_d*omega**2*cos(alpha).  The
\* entries the code sets to 0 (Qwe_zeta, Qb_zeta, Qwi_eta) are 0.
Contributions ==
    [Qwe : {<<0, 7, a>> : a \in {-1, 1}},
     Qb  : {<<0, -6, a>> : a \in {-1, 0}},
     Qt  : {<<z, 1, 0>> : z \in {-1, 0, 1}},
     Qh  : (-MaxDrag..MaxDrag) \X (-MaxDrag..MaxDrag) \X (-MaxDrag..MaxDrag),
     Qwa : {<<1, 0, 1>>, <<0, -1, 0>>},
     Qwi : {<<-2, 0, -3>>, <<-1, 0, -1>>},
     v_zeta : {1}, v_eta : {-1}, omega : {-1},
     Md_omega2_sin : {0, 1}, Md_omega2_cos : {1}]

\* Line 510
Q_zeta(c) == c.Qwe[1] + c.Qb[1] + c.Qt[1] + c.Qh[1] + c.Qwa[1] + c.Qwi[1] + c.Qh[1]
\* Line 512
Q_eta(c) == c.Qwe[2] + c.Qb[2] + c.Qt[2] + c.Qh[2] + c.Qwa[2] + c.Qwi[2] + c.Qh[2]
\* Line 514
Q_alpha(c) == c.Qwe[3] + c.Qb[3] + c.Qt[3] + c.Qh[3] + c.Qwa[3] + c.Qh[3] + c.Qwi[3]

\* Lines 516-521
F(c) ==
    <<c.v_zeta,
      Q_zeta(c) + c.Md_omega2_sin,
      c.v_eta,
      Q_eta(c) - c.Md_omega2_cos,
      c.omega,
      Q_alpha(c)>>

ForceInit ==
    /\ input_file = RunFile
    /\ performance = process_rotor_performance(RunFile)
    /\ lookup = NoLookup
    /\ args = NoArgs
    /\ np_random = [key |-> 0, pos |-> 0]
    /\ NotStarted

\* One pass of structure over lines 510-521, on every set of contributions.
AssembleForces ==
    /\ net_force.status = "none"
    /\ \E c \in Contributions :
           net_force' = [status |-> "ok", c |-> c, F |-> F(c)]
    /\ UNCHANGED <<tvars, rvars, pitch_call>>

ForceNext == AssembleForces

ForceSpec == ForceInit /\ [][ForceNext]_vars

\* The sum of the six contributions in degree of freedom k (1 surge, 2 heave,
\* 3 pitch), each taken once.
C15_Once(c, k) == c.Qwe[k] + c.Qb[k] + c.Qt[k] + c.Qwi[k] + c.Qh[k] + c.Qwa[k]

\* C15: in structure the net generalized force in surge, heave and pitch is the
\* sum of the weight, buoyancy, mooring, wind, hydrodynamic-drag and added-mass
\* wave contributions, each counted exactly once, and the gyroscopic terms are
\* added once to the surge and heave entries of the force vector.
C15_EachForceOnce ==
    net_force.status = "ok" =>
        LET c == net_force.c
        IN  net_force.F = <<c.v_zeta,
                            C15_Once(c, 1) + c.Md_omega2_sin,
                            c.v_eta,
                            C15_Once(c, 2) - c.Md_omega2_cos,
                            c.omega,
                            C15_Once(c, 3)>>

-----------------------------------------------------------------------------
(* PI_blade_pitch_controller (lines 723-767) *)

\* a <= b as IEEE compares
fle(a, b) == ~IsNaN(a) /\ ~IsNaN(b) /\ ~flt(b, a)

\* The error history of a controller call holds 1..MaxHistory entries.
MaxHistory == 3

\* rated_omega_R = 1.26711, in milliradians a second
rated_omega_R == 1267
\* beta_k = 0.1099965, in milliradians
beta_k == 110
\* K_d = 0.187437, in thousandths
K_d == 187
\* The rate limit 0.139626 of lines 753-756, in milliradians a second
MaxPitchRate == 140
\* np.pi/4, in milliradians
QuarterPi == 785

\* Ticks in one second: dt is in ticks, the gains are per second.
TicksPerSecond == 2 * HalfSecond

\* error[idx] of Python on a numpy array: a negative idx counts from the end.
ErrorAt(err, idx) == IF idx < 0 THEN err[Len(err) + idx + 1] ELSE err[idx + 1]

\* The controller on float64 scalars: omega_R in milliradians a second, dt in
\* ticks, beta and integral in milliradians, error an array of n scalars, i the
\* 0-based step.  GK is in thousandths.  K_p*eta_G is 0.129*GK and K_i*eta_G is
\* 0.0094*GK, from lines 728-743.  A comparison with nan is false, so a nan
\* delta_beta passes the rate limit and a nan beta passes the clamp.
PI_blade_pitch_controller(omega_R, dt, b, integ, err, idx) ==
    LET GK == fdiv(Fin(1000 * beta_k), fadd(Fin(beta_k), b))
        error_omega_R == fsub(omega_R, Fin(rated_omega_R))
        error1 == [err EXCEPT ![idx + 1] = error_omega_R]
        P == fdiv(fmul(Fin(129), fmul(GK, error_omega_R)), Fin(1000000))
        integral1 ==
            fadd(integ,
                 fdiv(fmul(Fin(dt),
                           fdiv(fmul(Fin(94), fmul(GK, error_omega_R)), Fin(10000000))),
                      Fin(TicksPerSecond)))
        D == fdiv(fmul(Fin(K_d * TicksPerSecond),
                       fsub(ErrorAt(error1, idx), ErrorAt(error1, idx - 1))),
                  Fin(1000 * dt))
        delta_beta == fadd(fadd(P, integral1), D)
        rate == fdiv(fmul(delta_beta, Fin(TicksPerSecond)), Fin(dt))
        step == Fin(RoundDiv(MaxPitchRate * dt, TicksPerSecond))
        limited ==
            IF flt(Fin(0), delta_beta) /\ flt(Fin(MaxPitchRate), rate) THEN step
            ELSE IF flt(delta_beta, Fin(0)) /\ flt(rate, Fin(-MaxPitchRate)) THEN fneg(step)
            ELSE delta_beta
        beta1 == fadd(b, limited)
        beta2 ==
            IF fle(beta1, Fin(0)) THEN Fin(0)
            ELSE IF fle(Fin(QuarterPi), beta1) THEN Fin(QuarterPi)
            ELSE beta1
    IN  [beta |-> beta2, integral |-> integral1, error |-> error1]

\* Rotor speeds handed to the controller: rated, above and below it, at rest
\* and reversed.
ControllerSpeeds == {Fin(1267), Fin(1269), Fin(4000), Fin(700), Fin(0), Fin(-1269)}
\* Input pitch angles from 0 to pi/4
ControllerPitches == {Fin(0), Fin(67), Fin(400), Fin(QuarterPi)}
\* Values of the accumulator the loop carries from call to call
ControllerIntegrals == {Fin(0), Fin(9), Fin(-900)}
\* An entry of error a previous call wrote
WrittenErrors == {Fin(2), Fin(-567)}
\* An entry of np.empty(n) nothing has written yet: whatever the memory held
UninitialisedErrors == {Fin(0), Fin(-3000), PosInf, NaN}
\* error at step idx of a run of len grid points: the entries before idx were
\* written by the calls of the steps before, the others were not.
ErrorArrays(len, idx) ==
    {e \in [1..len -> WrittenErrors \cup UninitialisedErrors] :
        \A k \in 1..len : IF k <= idx THEN e[k] \in WrittenErrors
                          ELSE e[k] \in UninitialisedErrors}

ControllerInit ==
    /\ input_file = RunFile
    /\ performance = process_rotor_performance(RunFile)
    /\ lookup = NoLookup
    /\ args = NoArgs
    /\ np_random = [key |-> 0, pos |-> 0]
    /\ NotStarted

\* One call beta, integral, error = PI_blade_pitch_controller(x[i][6], dt, beta,
\* integral, error, i), as line 784 writes it.
CallController ==
    /\ pitch_call.status = "none"
    /\ \E omega_R \in ControllerSpeeds, dt \in 1..MaxDt, b \in ControllerPitches,
          integ \in ControllerIntegrals, len \in 1..MaxHistory :
       \E idx \in 0..(len - 1) :
       \E err \in ErrorArrays(len, idx) :
           pitch_call' = [status |-> "ok", omega_R |-> omega_R, dt |-> dt, beta |-> b,
                          integral |-> integ, error |-> err, i |-> idx,
                          result |-> PI_blade_pitch_controller(omega_R, dt, b, integ,
                                                               err, idx)]
    /\ UNCHANGED <<tvars, rvars, net_force>>

ControllerNext == CallController

ControllerSpec == ControllerInit /\ [][ControllerNext]_vars

\* C16: for every call of PI_blade_pitch_controller with any rotor speed, dt > 0
\* and an input pitch in [0, pi/4], the returned pitch lies in [0, pi/4] and
\* differs from the input pitch by at most 0.139626*dt, whatever the values of
\* the proportional, integral and derivative terms.
C16_PitchBounded ==
    pitch_call.status = "ok" =>
        LET out == pitch_call.result.beta
        IN  /\ IsFin(out)
            /\ 0 <= out.v /\ out.v <= 785
            /\ AbsInt(out.v - pitch_call.beta.v)
                  <= RoundDiv(140 * pitch_call.dt, 2 * HalfSecond)

====
